---- MODULE Spec2Model ----
(***************************************************************************)
(* Model of the PYQuer server's paper-ingestion pipeline (src/index.js):   *)
(* the upload handler, parsePapers (direct extraction or OCR), the paper   *)
(* assembler and prompt builder, the provider dispatch of /api/analyze,    *)
(* the per-provider handlers /api/ai/{gemini,mistral,cohere}, the history  *)
(* save and the fire-and-forget deletion of the stored files.              *)
(*                                                                         *)
(* Strings are sequences of tokens: a token is a word, a whitespace        *)
(* character or a label such as "Paper 1:".                                *)
(*                                                                         *)
(* Node runs one handler at a time and switches only at an await, so an    *)
(* action is the code between two awaits.  The specification Spec has one  *)
(* request in flight; the fs.unlink callbacks of an earlier request and    *)
(* the clock run between its steps.                                        *)
(*                                                                         *)
(* index.js mounts routes/ai at /api/ai (line 87) before it registers its  *)
(* own /api/ai/gemini, /api/ai/mistral and /api/ai/cohere handlers (lines  *)
(* 466-615); the handlers are modelled as index.js defines them.           *)
(*                                                                         *)
(* SpecClassifier calls isMathSubject alone on batches of subjects.        *)
(* SpecAuth is the model of routes/auth: register, login, the profile, the *)
(* user list and the removal of a user, each handler one step.             *)
(***************************************************************************)
EXTENDS Integers, Sequences, FiniteSets, TLC

(* ------------------------------ bounds --------------------------------- *)
\* Date.now() takes the values 0..MaxTime.
MaxTime == 1
\* An analysis request carries at most MaxPapers papers.
MaxPapers == 2
\* An upload request carries at most MaxFiles files.
MaxFiles == 2
\* At most MaxUsers accounts are registered.
MaxUsers == 2

(* ------------------------------ strings -------------------------------- *)
WS == {" ", "\n"}

RECURSIVE TrimLeft(_)
TrimLeft(s) ==
  IF s = << >> THEN << >>
  ELSE IF Head(s) \in WS THEN TrimLeft(Tail(s)) ELSE s

RECURSIVE TrimRight(_)
TrimRight(s) ==
  IF s = << >> THEN << >>
  ELSE IF s[Len(s)] \in WS THEN TrimRight(SubSeq(s, 1, Len(s) - 1)) ELSE s

\* String.prototype.trim
Trim(s) == TrimRight(TrimLeft(s))

\* String.prototype.toLowerCase, on the selectors the clients send
ToLowerCase(m) ==
  CASE m = "COHERE" -> "cohere"
    [] OTHER -> m

\* String.prototype.toUpperCase, on the selectors the clients send
ToUpperCase(m) ==
  CASE m = "gemini" -> "GEMINI"
    [] m = "COHERE" -> "COHERE"
    [] m = "davinci" -> "DAVINCI"
    [] OTHER -> m

\* Array.prototype.join
RECURSIVE Join(_, _)
Join(parts, sep) ==
  IF parts = << >> THEN << >>
  ELSE IF Len(parts) = 1 THEN parts[1]
  ELSE parts[1] \o sep \o Join(Tail(parts), sep)

(* ------------------------------ documents ------------------------------ *)
\* The PDFs a client may upload:
\*   text     a searchable PDF
\*   scan     a scanned PDF: pdf-parse yields whitespace only, two pages
\*   badpage  a scanned PDF with no text at all whose second page makes
\*            Tesseract.recognize reject
\*   corrupt  a malformed PDF: pdf-parse rejects, the pages still render
Docs == {"text", "scan", "badpage", "corrupt"}
NoFile == "nofile"

\* pdfParse(buffer) rejects
ParseThrows(d) == d = "corrupt"

\* pdfData.text
DirectText(d) ==
  CASE d = "text" -> <<"Q1", " ", "Q2">>
    [] d = "scan" -> <<" ", "\n">>
    [] OTHER -> << >>

\* a page image Tesseract.recognize rejects on
BadImage == "img-bad"

\* pdfImgConvert.convert(filePath): the page images, in page order
PageImages(d) ==
  CASE d = "text" -> <<"img-Q">>
    [] d = "scan" -> <<"img-A", "img-B">>
    [] d = "badpage" -> <<"img-C", BadImage, "img-D">>
    [] OTHER -> <<"img-E">>

\* Tesseract.recognize(img).data.text
Recognize(img) ==
  CASE img = "img-Q" -> <<"q1", " ", "q2">>
    [] img = "img-A" -> <<"A">>
    [] img = "img-B" -> <<"B">>
    [] img = "img-C" -> <<"C">>
    [] img = "img-D" -> <<"D">>
    [] OTHER -> <<"E">>


\* the loop putting each page's text in front of the text so far
RECURSIVE OcrLoopPrepend(_, _, _)
OcrLoopPrepend(images, i, ocrText) ==
  IF i > Len(images) THEN [threw |-> FALSE, text |-> ocrText]
  ELSE IF images[i] = BadImage THEN [threw |-> TRUE, text |-> ocrText]
  ELSE OcrLoopPrepend(images, i + 1, Recognize(images[i]) \o <<"\n">> \o ocrText)

\* the recognition loop of parsePapers over images[i..]: ocrText so far, and
\* whether Tesseract.recognize rejected (the loop has no try/catch)
RECURSIVE OcrLoop(_, _, _)
OcrLoop(images, i, ocrText) ==
  IF i > Len(images) THEN [threw |-> FALSE, text |-> ocrText]
  ELSE IF images[i] = BadImage THEN [threw |-> TRUE, text |-> ocrText]
  ELSE OcrLoop(images, i + 1, ocrText \o Recognize(images[i]) \o <<"\n">>)

\* the upload's check without trim(): whitespace counts as text
UploadNeedsOCRNoTrim(d) ==
  IF ParseThrows(d) THEN TRUE ELSE DirectText(d) = << >>

\* upload: needsOCR of a stored document
UploadNeedsOCR(d) ==
  IF ParseThrows(d) THEN TRUE
  ELSE DirectText(d) = << >> \/ Trim(DirectText(d)) = << >>

\* parsePapers taking the OCR branch whatever the flag
UseOCRAlways(paper) == TRUE

\* parsePapers: if (paper.needsOCR)
UseOCR(paper) == paper.needsOCR

(* --------------------------- subject classifier ------------------------ *)
\* a subject is a sequence of characters
Upper == <<"A","B","C","D","E","F","G","H","I","J","K","L","M",
           "N","O","P","Q","R","S","T","U","V","W","X","Y","Z">>
Lower == <<"a","b","c","d","e","f","g","h","i","j","k","l","m",
           "n","o","p","q","r","s","t","u","v","w","x","y","z">>

\* the characters of the subjects: the letters, the digits and the space
Chars == { Upper[i] : i \in 1..26 } \cup { Lower[i] : i \in 1..26 }
           \cup {"0", "1", "2", "3", "4", "5", "6", "7", "8", "9", " "}

LowerChar(c) ==
  IF \E i \in 1..26 : Upper[i] = c
  THEN Lower[CHOOSE i \in 1..26 : Upper[i] = c]
  ELSE c

\* toLowerCase, character by character
LowerOf == [c \in Chars |-> LowerChar(c)]

\* subject.toLowerCase()
SubjectLower(s) == [i \in 1..Len(s) |-> LowerOf[s[i]]]

\* String.prototype.includes
Includes(s, kw) ==
  \E i \in 1..(Len(s) - Len(kw) + 1) : SubSeq(s, i, i + Len(kw) - 1) = kw

Keywords ==
  { <<"m","a","t","h">>,
    <<"m","a","t","h","e","m","a","t","i","c","s">>,
    <<"c","a","l","c","u","l","u","s">>,
    <<"a","l","g","e","b","r","a">>,
    <<"t","h","e","o","r","y"," ","o","f"," ","c","o","m","p","u","t","a","t","i","o","n">>,
    <<"t","o","c">>,
    <<"d","i","s","c","r","e","t","e"," ","m","a","t","h","e","m","a","t","i","c","s">>,
    <<"d","m">>,
    <<"c","o","m","p","i","l","e","r"," ","d","e","s","i","g","n">>,
    <<"c","o","m","p","i","l","e","r">>,
    <<"a","u","t","o","m","a","t","a">>,
    <<"f","o","r","m","a","l"," ","l","a","n","g","u","a","g","e","s">>,
    <<"c","d">> }

\* the classifier without toLowerCase
isMathSubjectCaseSensitive(ps) ==
  \E k \in 1..Len(ps) : \E kw \in Keywords : Includes(ps[k].subject, kw)

\* papers.some(paper => { const subject = paper.subject.toLowerCase(); ... })
isMathSubject(ps) ==
  \E k \in 1..Len(ps) : \E kw \in Keywords : Includes(SubjectLower(ps[k].subject), kw)

(* ------------------------ assembler and prompt ------------------------- *)
\* the block labelled with the 0-based index
PaperBlockZeroBased(index, text) ==
  <<"\n", "Paper " \o ToString(index) \o ":", "\n">> \o text \o <<"\n">>

\* `\nPaper ${index + 1}:\n${paper.text}\n`
PaperBlock(index, text) ==
  <<"\n", "Paper " \o ToString(index + 1) \o ":", "\n">> \o text \o <<"\n">>

\* parsedPapers.map((paper, index) => ...).join('\n')
PapersText(ps) ==
  Join([k \in 1..Len(ps) |-> PaperBlock(k - 1, ps[k].text)], <<"\n">>)

Note == "NOTE: This analysis tool works best for theory subjects."

\* the template with the note whatever the flag
generatePromptNoteAlways(text, technical) ==
  <<"\n", "You are an assistant that analyzes previous year questions.", "\n", "\n">>
    \o <<Note>>
    \o <<"\n", "\n", "SECTIONS 1-3", "\n", "4. Remaining Questions:", "\n",
         "Paper 1:", "\n", "SECTIONS 5-6", "\n", "IMPORTANT:", "\n",
         "- For technical subjects, focus on question patterns.", "\n",
         "INPUT PAPERS:", "\n">>
    \o text \o <<"\n">>

\* the template: its opening line, the conditional note, sections 1 to 3,
\* section 4 with its sample "Paper 1:", sections 5 and 6, the IMPORTANT list
\* (one item of it speaks of technical subjects whatever the flag), the papers
generatePrompt(text, technical) ==
  <<"\n", "You are an assistant that analyzes previous year questions.", "\n", "\n">>
    \o (IF technical THEN <<Note>> ELSE << >>)
    \o <<"\n", "\n", "SECTIONS 1-3", "\n", "4. Remaining Questions:", "\n",
         "Paper 1:", "\n", "SECTIONS 5-6", "\n", "IMPORTANT:", "\n",
         "- For technical subjects, focus on question patterns.", "\n",
         "INPUT PAPERS:", "\n">>
    \o text \o <<"\n">>

\* a per-provider handler that calls generatePrompt without the flag
AssemblePromptGeminiNoFlag(e, ps) ==
  [papersText |-> PapersText(ps),
   prompt |-> generatePrompt(PapersText(ps),
                             IF e = "gemini" THEN FALSE ELSE isMathSubject(ps))]

\* the two lines every handler of papers has after parsePapers (e names the
\* handler): const papersText = parsedPapers.map(...).join('\n');
\* const prompt = generatePrompt(papersText, isMathSubject(parsedPapers))
AssemblePrompt(e, ps) ==
  [papersText |-> PapersText(ps),
   prompt |-> generatePrompt(PapersText(ps), isMathSubject(ps))]

(* ------------------------------- state --------------------------------- *)
Names == {"a.pdf"}
\* multer filename: Date.now() + '-' + file.originalname
FileIds == (0..MaxTime) \X Names
FileName(t, originalname) == <<t, originalname>>

History == <<"H","i","s","t","o","r","y">>
Mathematics == <<"M","a","t","h","e","m","a","t","i","c","s">>
\* the subject the clients give a paper: the upload at time 0 is the
\* Mathematics paper, any later one a History paper
SubjectSent(f) == IF f[1] = 0 THEN Mathematics ELSE History
UnknownSubject == <<"U","n","k","n","o","w","n">>

Providers == {"gemini", "mistral", "cohere"}
\* req.body.model as the clients send it; "undefined" takes the default
ModelInputs == {"undefined", "COHERE", "davinci"}
\* the Authorization header: none, a Bearer token jwt.verify rejects, a valid one
AuthInputs == {"none", "bad", "valid"}
\* what the provider's client library hands back: an answer with its text, a
\* rejected call, an answer without its envelope (result.response, choices,
\* body), an answer without its generation (choices[0], generations[0]), an
\* answer whose generation has no text
Outcomes == {"ok", "netError", "badEnvelope", "noGeneration", "noText"}

PaperInputs ==
  { [fileId |-> f, needsOCR |-> b, subject |-> SubjectSent(f)] :
      f \in FileIds, b \in BOOLEAN }
PaperLists == UNION { [1..n -> PaperInputs] : n \in 0..MaxPapers }
FileInputs == [originalname : Names, doc : Docs]
FileLists == UNION { [1..n -> FileInputs] : n \in 0..MaxFiles }

VARIABLES
  disk,          \* uploads/: file id -> the stored document, or NoFile
  debugPng,      \* uploads/ocr_debug_page1.png: the image last written, or NoFile
  now,           \* Date.now()
  history,       \* the AnalysisHistory collection
  pendingUnlink, \* fs.unlink calls issued and not yet performed
  endpoint,      \* the handler of the request in flight (or of the last one)
  pc,            \* where that handler is suspended
  papers,        \* req.body.papers
  model,         \* req.body.model after the default
  files,         \* req.files
  info,          \* uploadedFilesInfo
  idx,           \* the loop index of the handler (1-based)
  parsed,        \* parsedPapers
  papersText,
  prompt,
  provider,      \* the provider called
  analysis,
  resp,          \* the response sent, status 0 while none is
  io,            \* what the request in flight has done so far
  batch,         \* the papers isMathSubject is called with
  technical,     \* what it returned: << >> before the call, <<b>> after
  users,         \* the User collection
  nextId,        \* the _id the next User.create gives
  issued,        \* the _ids generateToken has signed a token for
  authResp       \* the last response of a handler of routes/auth

vars == <<disk, debugPng, now, history, pendingUnlink, endpoint, pc,
          papers, model, files, info, idx, parsed, papersText, prompt,
          provider, analysis, resp, io, batch, technical,
          users, nextId, issued, authResp>>

\* the state of the pipeline, and the state of the classifier called alone
pipeline == <<disk, debugPng, now, history, pendingUnlink, endpoint, pc,
              papers, model, files, info, idx, parsed, papersText, prompt,
              provider, analysis, resp, io>>
classifier == <<batch, technical>>
\* the state of routes/auth
accounts == <<users, nextId, issued, authResp>>

NoAuthResp == [op |-> "none", status |-> 0, caller |-> 0, role |-> "", body |-> {}]

NoPayload ==
  [files |-> << >>, analysis |-> << >>, model |-> "", papers |-> << >>,
   papersText |-> << >>, prompt |-> << >>]
NoResp == [status |-> 0, error |-> "", details |-> "", payload |-> NoPayload, sent |-> 0]
\* reads, ocr, writes, calls, saves, unlinks count the file reads, the OCR runs,
\* the file writes, the provider calls, the history saves and the fs.unlink
\* calls; badPages the pages Tesseract rejected on; outcome the provider's
\* answer; threw the message of the exception that ended the handler
NoIO ==
  [reads |-> 0, ocr |-> 0, writes |-> 0, calls |-> 0, saves |-> 0, unlinks |-> 0,
   badPages |-> 0, outcome |-> "", threw |-> ""]

\* res.status(status).json({ error, details })
ErrorResp(status, error, details) ==
  [status |-> status, error |-> error, details |-> details,
   payload |-> NoPayload, sent |-> 1]

InitPipeline ==
  /\ disk = [f \in FileIds |-> NoFile]
  /\ debugPng = NoFile
  /\ now = 0
  /\ history = {}
  /\ pendingUnlink = {}
  /\ endpoint = "none"
  /\ pc = "idle"
  /\ papers = << >>
  /\ model = ""
  /\ files = << >>
  /\ info = << >>
  /\ idx = 0
  /\ parsed = << >>
  /\ papersText = << >>
  /\ prompt = << >>
  /\ provider = ""
  /\ analysis = << >>
  /\ resp = NoResp
  /\ io = NoIO

InitClassifierIdle ==
  /\ batch = << >>
  /\ technical = << >>

InitAccountsEmpty ==
  /\ users = {}
  /\ nextId = 1
  /\ issued = {}
  /\ authResp = NoAuthResp

Init ==
  /\ InitPipeline
  /\ InitClassifierIdle
  /\ InitAccountsEmpty

(* ------------------------------- upload -------------------------------- *)
\* multer.diskStorage: every file of the request (each has passed the
\* fileFilter) is written under its filename,
\* in order, so the last file written under a name is the one stored
StoreFiles(d, fs) ==
  [f \in FileIds |->
     IF \E i \in 1..Len(fs) : fs[i].filename = f
     THEN LET last == CHOOSE i \in 1..Len(fs) :
                        /\ fs[i].filename = f
                        /\ \A j \in 1..Len(fs) : fs[j].filename = f => j <= i
          IN  fs[last].sent
     ELSE d[f]]

\* the values of Date.now() in the filename callback of each file of a request
TimeLists == UNION { [1..n -> 0..MaxTime] : n \in 0..MaxFiles }

\* the files of a request are named one after the other, from the clock's
\* value on
UploadTimes(ts, n, t) ==
  /\ Len(ts) = n
  /\ \A i \in 1..n : t <= ts[i]
  /\ \A i \in 1..(n - 1) : ts[i] <= ts[i + 1]

\* POST /api/upload: the multer middleware, file by file (ts[i] is Date.now()
\* when file i is named), then the handler up to its first await
UploadReceive(fs, ts) ==
  /\ pc = "idle"
  /\ UploadTimes(ts, Len(fs), now)
  /\ LET stored == [i \in 1..Len(fs) |->
                      [filename |-> FileName(ts[i], fs[i].originalname),
                       originalname |-> fs[i].originalname,
                       sent |-> fs[i].doc]]
     IN  /\ files' = stored
         /\ disk' = StoreFiles(disk, stored)
         /\ io' = [NoIO EXCEPT !.writes = Len(fs)]
  /\ now' = IF fs = << >> THEN now ELSE ts[Len(fs)]
  /\ endpoint' = "upload"
  /\ info' = << >>
  /\ papers' = << >>
  /\ parsed' = << >>
  /\ model' = ""
  /\ provider' = ""
  /\ analysis' = << >>
  /\ papersText' = << >>
  /\ prompt' = << >>
  /\ IF fs = << >>
     THEN /\ resp' = ErrorResp(400, "No files uploaded", "")
          /\ pc' = "done"
          /\ idx' = 0
     ELSE /\ resp' = NoResp
          /\ pc' = "uploadLoop"
          /\ idx' = 1
  /\ UNCHANGED <<debugPng, history, pendingUnlink>>
  /\ UNCHANGED <<classifier, accounts>>

\* one iteration of the for loop of the upload handler: readFileSync, pdfParse
\* in its try/catch, push; after the last file, res.json({ files })
UploadParse ==
  /\ pc = "uploadLoop"
  /\ LET file == files[idx]
         d == disk[file.filename]
     IN  IF d = NoFile
         THEN \* readFileSync throws: the handler's catch
              /\ resp' = ErrorResp(500, "Error uploading files", "")
              /\ io' = [io EXCEPT !.threw = "ENOENT"]
              /\ pc' = "done"
              /\ UNCHANGED <<info, idx>>
         ELSE LET entry == [fileId |-> file.filename,
                            subject |-> UnknownSubject,
                            originalName |-> file.originalname,
                            needsOCR |-> UploadNeedsOCR(d),
                            read |-> d]
                  all == Append(info, entry)
              IN  /\ info' = all
                  /\ io' = [io EXCEPT !.reads = @ + 1]
                  /\ IF idx = Len(files)
                     THEN /\ resp' = [status |-> 200, error |-> "", details |-> "",
                                      payload |-> [NoPayload EXCEPT !.files = all],
                                      sent |-> 1]
                          /\ pc' = "done"
                          /\ idx' = idx
                     ELSE /\ idx' = idx + 1
                          /\ UNCHANGED <<resp, pc>>
  /\ UNCHANGED <<disk, debugPng, now, history, pendingUnlink, endpoint, papers,
                 model, files, parsed, papersText, prompt, provider, analysis>>
  /\ UNCHANGED <<classifier, accounts>>

(* ------------------------------ analysis ------------------------------- *)
\* a handler of papers up to its call of parsePapers: the destructuring of
\* req.body and the check of papers
Receive(e, ps, m) ==
  /\ pc = "idle"
  /\ endpoint' = e
  /\ papers' = ps
  /\ model' = m
  /\ files' = << >>
  /\ info' = << >>
  /\ parsed' = << >>
  /\ papersText' = << >>
  /\ prompt' = << >>
  /\ provider' = ""
  /\ analysis' = << >>
  /\ io' = NoIO
  /\ IF ps = << >>
     THEN /\ resp' = ErrorResp(400, "No papers provided for analysis", "")
          /\ pc' = "done"
          /\ idx' = 0
     ELSE /\ resp' = NoResp
          /\ pc' = "parse"
          /\ idx' = 1
  /\ UNCHANGED <<disk, debugPng, now, history, pendingUnlink>>
  /\ UNCHANGED <<classifier, accounts>>

\* POST /api/analyze: const { papers, model = 'gemini' } = req.body
AnalyzeReceive(ps, m) ==
  Receive("analyze", ps, IF m = "undefined" THEN "gemini" ELSE m)

\* POST /api/ai/gemini, /api/ai/mistral, /api/ai/cohere: const { papers } = req.body
ProviderReceive(e, ps) == Receive(e, ps, "")

\* the catch a rejection inside parsePapers lands in
ParseFailure(e, message) ==
  CASE e = "analyze" -> ErrorResp(500, "Error analyzing paper", "")
    [] e = "gemini" -> ErrorResp(500, "Error analyzing with Gemini API", message)
    [] e = "mistral" -> ErrorResp(500, "Error analyzing with Mistral API", message)
    [] OTHER -> ErrorResp(500, "Error with Cohere API", message)

\* the first paper at or after i whose stored file exists (fs.existsSync), or
\* Len(ps) + 1: the papers before it are skipped with a warning
NextExisting(ps, i, d) ==
  IF \E j \in i..Len(ps) : d[ps[j].fileId] # NoFile
  THEN CHOOSE j \in i..Len(ps) :
         /\ d[ps[j].fileId] # NoFile
         /\ \A k \in i..(j - 1) : d[ps[k].fileId] = NoFile
  ELSE Len(ps) + 1

\* what parsePapers pushes; src, via and doc record where the text came from
ParsedPaper(paper, text, src, via, d) ==
  [text |-> text, subject |-> paper.subject, originalName |-> paper.fileId[2],
   src |-> src, via |-> via, doc |-> d]

\* parsePapers from the top of its for loop to the next await: the papers whose
\* file is missing are skipped; a paper flagged needsOCR suspends in
\* pdfImgConvert.convert, any other is read and handed to pdfParse
ParseStep ==
  /\ pc = "parse"
  /\ LET j == NextExisting(papers, idx, disk)
     IN  IF j > Len(papers)
         THEN /\ pc' = "dispatch"
              /\ idx' = j
              /\ UNCHANGED <<parsed, resp, io>>
         ELSE LET paper == papers[j]
                  d == disk[paper.fileId]
              IN  IF UseOCR(paper)
                  THEN /\ pc' = "raster"
                       /\ idx' = j
                       /\ UNCHANGED <<parsed, resp, io>>
                  ELSE IF ParseThrows(d)
                          THEN /\ resp' = ParseFailure(endpoint, "pdf-parse")
                               /\ io' = [io EXCEPT !.reads = @ + 1,
                                                   !.threw = "pdf-parse"]
                               /\ pc' = "done"
                               /\ idx' = j
                               /\ UNCHANGED parsed
                          ELSE /\ io' = [io EXCEPT !.reads = @ + 1]
                               /\ parsed' = Append(parsed,
                                     ParsedPaper(paper, DirectText(d), j, "direct", d))
                               /\ idx' = j + 1
                               /\ pc' = IF j = Len(papers) THEN "dispatch" ELSE "parse"
                               /\ UNCHANGED resp
  /\ UNCHANGED <<disk, debugPng, now, history, pendingUnlink, endpoint,
                 papers, model, files, info, papersText, prompt, provider, analysis>>
  /\ UNCHANGED <<classifier, accounts>>

\* the OCR branch of parsePapers once pdfImgConvert.convert settles: the file is
\* read now; page 1 is written to ocr_debug_page1.png; every page is recognized
OcrStep ==
  /\ pc = "raster"
  /\ LET paper == papers[idx]
         d == disk[paper.fileId]
     IN  IF d = NoFile
         THEN /\ resp' = ParseFailure(endpoint, "ENOENT")
              /\ io' = [io EXCEPT !.threw = "ENOENT"]
              /\ pc' = "done"
              /\ UNCHANGED <<parsed, idx, debugPng>>
         ELSE LET images == PageImages(d)
                  ocr == OcrLoop(images, 1, << >>)
              IN  /\ debugPng' = images[1]
                  /\ IF ocr.threw
                     THEN /\ resp' = ParseFailure(endpoint, "recognize")
                          /\ io' = [io EXCEPT !.reads = @ + 1, !.ocr = @ + 1,
                                              !.writes = @ + 1, !.badPages = @ + 1,
                                              !.threw = "recognize"]
                          /\ pc' = "done"
                          /\ UNCHANGED <<parsed, idx>>
                     ELSE /\ io' = [io EXCEPT !.reads = @ + 1, !.ocr = @ + 1,
                                              !.writes = @ + 1]
                          /\ parsed' = Append(parsed,
                                ParsedPaper(paper, ocr.text, idx, "ocr", d))
                          /\ idx' = idx + 1
                          /\ pc' = IF idx = Len(papers) THEN "dispatch" ELSE "parse"
                          /\ UNCHANGED resp
  /\ UNCHANGED <<disk, now, history, pendingUnlink, endpoint, papers,
                 model, files, info, papersText, prompt, provider, analysis>>
  /\ UNCHANGED <<classifier, accounts>>

\* the switch of /api/analyze takes one of its three cases
ProviderSupported(m) == ToLowerCase(m) \in Providers

\* after parsePapers: the empty check, the assembler, the prompt, and the call
\* of the provider (or the default case of the switch)
Dispatch ==
  /\ pc = "dispatch"
  /\ IF parsed = << >>
     THEN /\ resp' = ErrorResp(400, "No valid papers found for analysis", "")
          /\ pc' = "done"
          /\ UNCHANGED <<papersText, prompt, provider, io>>
     ELSE /\ papersText' = AssemblePrompt(endpoint, parsed).papersText
          /\ prompt' = AssemblePrompt(endpoint, parsed).prompt
          /\ IF endpoint = "analyze" /\ ~ProviderSupported(model)
             THEN /\ resp' = ErrorResp(400, "Invalid model specified", "")
                  /\ pc' = "done"
                  /\ UNCHANGED <<provider, io>>
             ELSE /\ provider' = IF endpoint = "analyze" THEN ToLowerCase(model)
                                 ELSE endpoint
                  /\ io' = [io EXCEPT !.calls = @ + 1]
                  /\ pc' = "provider"
                  /\ UNCHANGED resp
  /\ UNCHANGED <<disk, debugPng, now, history, pendingUnlink, endpoint,
                 papers, model, files, info, idx, parsed, analysis>>
  /\ UNCHANGED <<classifier, accounts>>

(* --------------------------- provider and reply ------------------------ *)
AnalysisText == <<"analysis">>

\* the provider's answer taken without cohere's check of generations[0]
ProviderResultUnchecked(p, out) ==
  CASE out = "ok" -> [threw |-> FALSE, message |-> "", text |-> AnalysisText]
    [] out = "noText" -> [threw |-> FALSE, message |-> "", text |-> << >>]
    [] out = "netError" -> [threw |-> TRUE, message |-> "fetch failed", text |-> << >>]
    [] p = "cohere" /\ out = "noGeneration" ->
         [threw |-> FALSE, message |-> "", text |-> << >>]
    [] p = "cohere" ->
         [threw |-> TRUE, message |-> "Invalid response from Cohere API", text |-> << >>]
    [] OTHER ->
         [threw |-> TRUE, message |-> "TypeError: Cannot read properties of undefined",
          text |-> << >>]

\* what the code between the provider's call and `analysis = ...` makes of the
\* provider's answer: gemini's response.text(), mistral's choices[0].message
\* .content and the explicit check of cohere's body.generations[0]; a missing
\* text is assigned as it is
ProviderResult(p, out) ==
  CASE out = "ok" -> [threw |-> FALSE, message |-> "", text |-> AnalysisText]
    [] out = "noText" -> [threw |-> FALSE, message |-> "", text |-> << >>]
    [] out = "netError" -> [threw |-> TRUE, message |-> "fetch failed", text |-> << >>]
    [] p = "cohere" ->
         [threw |-> TRUE, message |-> "Invalid response from Cohere API", text |-> << >>]
    [] OTHER ->
         [threw |-> TRUE, message |-> "TypeError: Cannot read properties of undefined",
          text |-> << >>]

\* the catch a rejection of the provider (or of the history save) lands in
ApiFailure(e, m, message) ==
  CASE e = "analyze" ->
         ErrorResp(500, "Error analyzing with " \o ToUpperCase(m) \o " API", message)
    [] e = "gemini" -> ErrorResp(500, "Error analyzing with Gemini API", message)
    [] e = "mistral" -> ErrorResp(500, "Error analyzing with Mistral API", message)
    [] OTHER -> ErrorResp(500, "Error with Cohere API", message)

\* res.json({ analysis, model, timestamp, papers, papersText, prompt })
SuccessResp(e, m, p, text, ps, ptext, pr) ==
  [status |-> 200, error |-> "", details |-> "",
   payload |-> [files |-> << >>,
                analysis |-> text,
                model |-> IF e = "analyze" THEN m ELSE p,
                papers |-> IF e = "analyze"
                           THEN [k \in 1..Len(ps) |-> ps[k].originalName]
                           ELSE << >>,
                papersText |-> ptext,
                prompt |-> pr],
   sent |-> 1]

\* the files /api/analyze calls fs.unlink on after res.json: one per paper of
\* the request; the per-provider handlers call it on none
FilesToUnlink(e, ps) ==
  IF e = "analyze" THEN { ps[k].fileId : k \in 1..Len(ps) } ELSE {}

\* userId of the history block: decoded.id when the Bearer token verifies
UserId(a) == IF a = "valid" THEN "u1" ELSE "null"

\* the provider's call settles; a rejection or a malformed answer lands in the
\* catch; otherwise /api/analyze reads the Authorization header and either
\* suspends in AnalysisHistory.create or replies and issues the deletions
ProviderReturn(out, a) ==
  /\ pc = "provider"
  /\ LET r == ProviderResult(provider, out)
     IN  IF r.threw
         THEN /\ resp' = ApiFailure(endpoint, model, r.message)
              /\ io' = [io EXCEPT !.outcome = out, !.threw = r.message]
              /\ pc' = "done"
              /\ UNCHANGED <<analysis, pendingUnlink>>
         ELSE /\ analysis' = r.text
              /\ IF endpoint = "analyze" /\ UserId(a) # "null"
                 THEN /\ pc' = "save"
                      /\ io' = [io EXCEPT !.outcome = out, !.saves = @ + 1]
                      /\ UNCHANGED <<resp, pendingUnlink>>
                 ELSE /\ resp' = SuccessResp(endpoint, model, provider, r.text,
                                             parsed, papersText, prompt)
                      /\ pendingUnlink' = pendingUnlink \cup FilesToUnlink(endpoint, papers)
                      /\ io' = [io EXCEPT !.outcome = out, !.unlinks =
                                  @ + Cardinality(FilesToUnlink(endpoint, papers))]
                      /\ pc' = "done"
  /\ UNCHANGED <<disk, debugPng, now, history, endpoint, papers, model,
                 files, info, idx, parsed, papersText, prompt, provider>>
  /\ UNCHANGED <<classifier, accounts>>

\* analysisHistorySchema: modelUsed is one of the enum, prompt and analysis are
\* required
SchemaValid(m, pr, text) == m \in Providers /\ pr # << >> /\ text # << >>

\* AnalysisHistory.create settles: a validation error or a database failure
\* rejects inside the inner try; otherwise the record is stored, the reply is
\* sent and the deletions are issued
SaveHistory(dbUp) ==
  /\ pc = "save"
  /\ IF ~SchemaValid(model, prompt, analysis)
     THEN /\ resp' = ApiFailure(endpoint, model, "AnalysisHistory validation failed")
          /\ io' = [io EXCEPT !.threw = "AnalysisHistory validation failed"]
          /\ UNCHANGED <<history, pendingUnlink>>
     ELSE IF ~dbUp
     THEN /\ resp' = ApiFailure(endpoint, model, "MongoNetworkError")
          /\ io' = [io EXCEPT !.threw = "MongoNetworkError"]
          /\ UNCHANGED <<history, pendingUnlink>>
     ELSE /\ history' = history \cup {[user |-> "u1", modelUsed |-> model]}
          /\ resp' = SuccessResp(endpoint, model, provider, analysis,
                                 parsed, papersText, prompt)
          /\ pendingUnlink' = pendingUnlink \cup FilesToUnlink(endpoint, papers)
          /\ io' = [io EXCEPT !.unlinks =
                      @ + Cardinality(FilesToUnlink(endpoint, papers))]
  /\ pc' = "done"
  /\ UNCHANGED <<disk, debugPng, now, endpoint, papers, model, files,
                 info, idx, parsed, papersText, prompt, provider, analysis>>
  /\ UNCHANGED <<classifier, accounts>>

\* a pending fs.unlink is performed: the file is removed, or the callback logs
\* the failure
Unlink(f) ==
  /\ f \in pendingUnlink
  /\ pendingUnlink' = pendingUnlink \ {f}
  /\ disk' = [disk EXCEPT ![f] = NoFile]
  /\ UNCHANGED <<debugPng, now, history, endpoint, pc, papers, model,
                 files, info, idx, parsed, papersText, prompt, provider,
                 analysis, resp, io>>
  /\ UNCHANGED <<classifier, accounts>>

\* the response has gone out and the handler has returned: the request's
\* locals are dropped
Close ==
  /\ pc = "done"
  /\ pc' = "idle"
  /\ endpoint' = "none"
  /\ papers' = << >>
  /\ model' = ""
  /\ files' = << >>
  /\ info' = << >>
  /\ idx' = 0
  /\ parsed' = << >>
  /\ papersText' = << >>
  /\ prompt' = << >>
  /\ provider' = ""
  /\ analysis' = << >>
  /\ resp' = NoResp
  /\ io' = NoIO
  /\ UNCHANGED <<disk, debugPng, now, history, pendingUnlink>>
  /\ UNCHANGED <<classifier, accounts>>

\* the clock advances
Tick ==
  /\ now < MaxTime
  /\ now' = now + 1
  /\ UNCHANGED <<disk, debugPng, history, pendingUnlink, endpoint, pc,
                 papers, model, files, info, idx, parsed, papersText, prompt,
                 provider, analysis, resp, io>>
  /\ UNCHANGED <<classifier, accounts>>

Next ==
  \/ \E fs \in FileLists, ts \in TimeLists : UploadReceive(fs, ts)
  \/ UploadParse
  \/ \E ps \in PaperLists, m \in ModelInputs : AnalyzeReceive(ps, m)
  \/ \E e \in Providers, ps \in PaperLists : ProviderReceive(e, ps)
  \/ ParseStep
  \/ OcrStep
  \/ Dispatch
  \/ \E out \in Outcomes, a \in AuthInputs : ProviderReturn(out, a)
  \/ \E dbUp \in BOOLEAN : SaveHistory(dbUp)
  \/ \E f \in FileIds : Unlink(f)
  \/ Close
  \/ Tick

Spec == Init /\ [][Next]_vars

(* --------------------- the classifier called alone --------------------- *)
UpperChar(c) ==
  IF \E i \in 1..26 : Lower[i] = c
  THEN Upper[CHOOSE i \in 1..26 : Lower[i] = c]
  ELSE c

UpperOf == [c \in Chars |-> UpperChar(c)]

SubjectUpper(s) == [i \in 1..Len(s) |-> UpperOf[s[i]]]

\* the subjects as the clients write them
SubjectsWritten ==
  { <<"H","i","s","t","o","r","y">>,
    <<"P","h","y","s","i","c","s">>,
    <<"M","a","t","h"," ","1","0","1">>,
    <<"M","a","t","h","e","m","a","t","i","c","s">>,
    <<"C","a","l","c","u","l","u","s">>,
    <<"A","l","g","e","b","r","a">>,
    <<"T","h","e","o","r","y"," ","o","f"," ","C","o","m","p","u","t","a","t","i","o","n">>,
    <<"T","O","C">>,
    <<"D","i","s","c","r","e","t","e"," ","M","a","t","h","e","m","a","t","i","c","s">>,
    <<"D","M">>,
    <<"C","o","m","p","i","l","e","r"," ","D","e","s","i","g","n">>,
    <<"C","o","m","p","i","l","e","r">>,
    <<"C","D">>,
    <<"A","u","t","o","m","a","t","a">>,
    <<"F","o","r","m","a","l"," ","L","a","n","g","u","a","g","e","s">>,
    <<"A","u","t","o","c","a","d">>,
    << >> }

\* paper.subject: a subject as written, in lower case or in upper case
SubjectInputs ==
  SubjectsWritten
    \cup { SubjectLower(w) : w \in SubjectsWritten }
    \cup { SubjectUpper(w) : w \in SubjectsWritten }

\* the parsedPapers isMathSubject is called with
Batches ==
  UNION { [1..n -> [subject : SubjectInputs]] : n \in 1..MaxPapers }

InitClassifier ==
  /\ InitPipeline
  /\ InitAccountsEmpty
  /\ batch \in Batches
  /\ technical = << >>

\* const flag = isMathSubject(parsedPapers)
Classify ==
  /\ technical = << >>
  /\ technical' = <<isMathSubject(batch)>>
  /\ UNCHANGED batch
  /\ UNCHANGED <<pipeline, accounts>>

NextClassifier == Classify

SpecClassifier == InitClassifier /\ [][NextClassifier]_vars


(* ------------------------------ routes/auth ---------------------------- *)
\* Every handler of routes/auth is one step.  _ids are 1, 2, ...; the account
\* with _id 0 is an administrator the database may hold from the start.
Emails == {"root@x", "a@x", "b@x"}
Passwords == {"p", "r"}
Admin == [id |-> 0, email |-> "root@x", password |-> "r", role |-> "admin"]

\* the Authorization header of a request: none, a token jwt.verify rejects, or
\* a token the server signed for an _id
TokenInputs == {<<"none", 0>>, <<"bad", 0>>} \cup {<<"jwt", i>> : i \in 0..MaxUsers}

InitAuth ==
  /\ InitPipeline
  /\ InitClassifierIdle
  /\ users \in {{}, {Admin}}
  /\ nextId = 1
  /\ issued = {}
  /\ authResp = NoAuthResp

\* User.findOne({ email })
FindByEmail(email) == { u \in users : u.email = email }
\* User.findById(id)
FindById(id) == { u \in users : u.id = id }

\* what res.json sends of a user
Public(u) == [id |-> u.id, email |-> u.email, role |-> u.role]

AuthReply(op, status, caller, body) ==
  [op |-> op, status |-> status,
   caller |-> IF caller = {} THEN 0 ELSE (CHOOSE u \in caller : TRUE).id,
   role |-> IF caller = {} THEN "" ELSE (CHOOSE u \in caller : TRUE).role,
   body |-> body]

\* the protect middleware: the user the Bearer token was signed for, as the
\* collection holds it now; no user when the header is missing, the token is
\* not one the server signed, or the user is gone
protect(tok) ==
  IF tok[1] # "jwt" THEN {}
  ELSE IF tok[2] \notin issued THEN {}
  ELSE FindById(tok[2])

\* POST /api/auth/register
registerUser(email, password) ==
  /\ IF FindByEmail(email) # {}
     THEN /\ authResp' = AuthReply("register", 400, {}, {})
          /\ UNCHANGED <<users, nextId, issued>>
     ELSE /\ nextId <= MaxUsers
          /\ LET user == [id |-> nextId, email |-> email, password |-> password,
                          role |-> "user"]
             IN  /\ users' = users \cup {user}
                 /\ authResp' = AuthReply("register", 201, {user}, {Public(user)})
          /\ nextId' = nextId + 1
          /\ issued' = issued \cup {nextId}
  /\ UNCHANGED <<pipeline, classifier>>

\* POST /api/auth/login
loginUser(email, password) ==
  /\ LET found == FindByEmail(email)
     IN  IF found = {} \/ \A u \in found : u.password # password
         THEN /\ authResp' = AuthReply("login", 401, {}, {})
              /\ UNCHANGED issued
         ELSE /\ authResp' = AuthReply("login", 200, found, {Public(u) : u \in found})
              /\ issued' = issued \cup {u.id : u \in found}
  /\ UNCHANGED <<users, nextId>>
  /\ UNCHANGED <<pipeline, classifier>>

\* GET /api/auth/profile
getUserProfile(tok) ==
  /\ LET caller == protect(tok)
     IN  authResp' = IF caller = {}
                     THEN AuthReply("profile", 401, {}, {})
                     ELSE AuthReply("profile", 200, caller, {Public(u) : u \in caller})
  /\ UNCHANGED <<users, nextId, issued>>
  /\ UNCHANGED <<pipeline, classifier>>

\* PUT /api/auth/profile: the email and the password may change, the role is
\* kept; an email another user holds makes user.save() reject
updateUserProfile(tok, email, password) ==
  /\ LET caller == protect(tok)
     IN  IF caller = {}
         THEN /\ authResp' = AuthReply("update", 401, {}, {})
              /\ UNCHANGED <<users, issued>>
         ELSE IF \E u \in FindByEmail(email) : u \notin caller
         THEN /\ authResp' = AuthReply("update", 500, caller, {})
              /\ UNCHANGED <<users, issued>>
         ELSE LET updated == { [u EXCEPT !.email = email, !.password = password] :
                                 u \in caller }
              IN  /\ users' = (users \ caller) \cup updated
                  /\ authResp' = AuthReply("update", 200, updated,
                                           {Public(u) : u \in updated})
                  /\ issued' = issued \cup {u.id : u \in updated}
  /\ UNCHANGED nextId
  /\ UNCHANGED <<pipeline, classifier>>

\* GET /api/auth/users: router.get('/users', protect, getUsers)
getUsers(tok) ==
  /\ LET caller == protect(tok)
     IN  authResp' = IF caller = {}
                     THEN AuthReply("getUsers", 401, {}, {})
                     ELSE AuthReply("getUsers", 200, caller, {Public(u) : u \in users})
  /\ UNCHANGED <<users, nextId, issued>>
  /\ UNCHANGED <<pipeline, classifier>>

\* DELETE /api/auth/users/:id: router.delete('/users/:id', protect, deleteUser)
deleteUser(tok, id) ==
  /\ LET caller == protect(tok)
     IN  IF caller = {}
         THEN /\ authResp' = AuthReply("deleteUser", 401, {}, {})
              /\ UNCHANGED users
         ELSE IF FindById(id) = {}
         THEN /\ authResp' = AuthReply("deleteUser", 404, caller, {})
              /\ UNCHANGED users
         ELSE /\ users' = users \ FindById(id)
              /\ authResp' = AuthReply("deleteUser", 200, caller,
                                       {Public(u) : u \in FindById(id)})
  /\ UNCHANGED <<nextId, issued>>
  /\ UNCHANGED <<pipeline, classifier>>

NextAuth ==
  \/ \E email \in Emails, password \in Passwords : registerUser(email, password)
  \/ \E email \in Emails, password \in Passwords : loginUser(email, password)
  \/ \E tok \in TokenInputs : getUserProfile(tok)
  \/ \E tok \in TokenInputs, email \in Emails, password \in Passwords :
       updateUserProfile(tok, email, password)
  \/ \E tok \in TokenInputs : getUsers(tok)
  \/ \E tok \in TokenInputs, id \in 0..MaxUsers : deleteUser(tok, id)

SpecAuth == InitAuth /\ [][NextAuth]_vars


(* ------------------------------- claims -------------------------------- *)
AnalysisEndpoints == {"analyze"} \cup Providers

\* the request in flight is an input error: an upload with no files, an
\* analysis with no papers, or an analysis with an unsupported selector
InputError ==
  \/ endpoint = "upload" /\ files = << >>
  \/ endpoint \in AnalysisEndpoints /\ papers = << >>
  \/ endpoint = "analyze" /\ ToLowerCase(model) \notin {"gemini", "mistral", "cohere"}

\* the document has text that pdf-parse extracts
HasExtractableText(d) == ~ParseThrows(d) /\ Trim(DirectText(d)) # << >>

\* pdf-parse returns an empty or whitespace-only string
Blank(d) == ~ParseThrows(d) /\ Trim(DirectText(d)) = << >>

LabelOf(k) == "Paper " \o ToString(k) \o ":"
Labels == { LabelOf(k) : k \in 1..(MaxPapers + 1) }

\* the text contains the block of label k followed by the paper's text
HasBlock(ptext, k, text) == Includes(ptext, <<LabelOf(k), "\n">> \o text \o <<"\n">>)

PositionOf(ptext, tok) == CHOOSE i \in 1..Len(ptext) : ptext[i] = tok

\* the page texts of a document in page order, a newline after each
PagesInOrder(d) ==
  Join([i \in 1..Len(PageImages(d)) |-> Recognize(PageImages(d)[i])], <<"\n">>)
    \o <<"\n">>

\* C1: an analysis request whose provider selector is not gemini, mistral or
\* cohere is rejected with an input error (HTTP 400) and no provider is called
\* while it is handled.
C1_UnsupportedSelectorRejected ==
  (pc = "done" /\ endpoint = "analyze"
     /\ ToLowerCase(model) \notin {"gemini", "mistral", "cohere"})
    => (resp.status = 400 /\ io.calls = 0)

\* the part of C1 the code keeps: no provider is called for such a request
NoCallForUnsupportedSelector ==
  (endpoint = "analyze" /\ ToLowerCase(model) \notin {"gemini", "mistral", "cohere"})
    => (io.calls = 0 /\ resp.status # 200)

\* C2: while an input error is handled, up to and including its rejection, no
\* stored file is read, no OCR runs, no provider is called and nothing is
\* persisted or deleted.
C2_InputErrorDoesNoIO ==
  InputError =>
    (io.reads = 0 /\ io.ocr = 0 /\ io.calls = 0 /\ io.saves = 0 /\ io.unlinks = 0)

\* C3 as claimed: the text of the k-th paper of the request is rendered under
\* the label "Paper k:", k its 1-based index in the request.
C3_LabelIsInputIndex ==
  papersText # << >> =>
    \A j \in 1..Len(parsed) :
      HasBlock(papersText, parsed[j].src, parsed[j].text)

\* C3 as amended: the k-th parsed paper (the papers whose stored file is missing
\* are skipped) is rendered under the label "Paper k:"; the parsed papers keep
\* the order of the request and the labels 1, 2, ... appear once each, in order.
C3_LabelIsParsedIndex ==
  papersText # << >> =>
    /\ \A j \in 1..Len(parsed) : HasBlock(papersText, j, parsed[j].text)
    /\ \A j \in 1..(Len(parsed) - 1) :
         /\ parsed[j].src < parsed[j + 1].src
         /\ PositionOf(papersText, LabelOf(j)) < PositionOf(papersText, LabelOf(j + 1))
    /\ Cardinality({ i \in 1..Len(papersText) : papersText[i] \in Labels }) = Len(parsed)
    /\ (resp.status = 200 => resp.payload.papersText = papersText)

C3_TwoPapersInOrder ==
  /\ pc = "done"
  /\ resp.status = 200
  /\ Len(parsed) = 2
  /\ parsed[1].text # parsed[2].text
  /\ HasBlock(resp.payload.papersText, 1, parsed[1].text)
  /\ HasBlock(resp.payload.papersText, 2, parsed[2].text)

\* C4 as claimed: OCR is never run on a paper whose stored file has extractable
\* text.
C4_NoOcrOnExtractableText ==
  \A j \in 1..Len(parsed) :
    parsed[j].via = "ocr" => ~HasExtractableText(parsed[j].doc)

\* C4 as amended: OCR is run on a paper exactly when the paper's entry in the
\* request carries needsOCR = true; upload reports needsOCR = false exactly for
\* a stored file with extractable text.
C4_OcrFollowsRequestFlag ==
  /\ \A j \in 1..Len(parsed) :
       (parsed[j].via = "ocr") <=> papers[parsed[j].src].needsOCR
  /\ pc = "raster" => papers[idx].needsOCR
  /\ io.ocr <= Cardinality({ k \in 1..Len(papers) : papers[k].needsOCR })
  /\ \A i \in 1..Len(info) :
       (info[i].needsOCR = FALSE) <=> HasExtractableText(info[i].read)

C4_TextDirectAndScanOcr ==
  /\ pc = "done"
  /\ resp.status = 200
  /\ \E j \in 1..Len(parsed) :
       parsed[j].via = "direct" /\ HasExtractableText(parsed[j].doc)
  /\ \E j \in 1..Len(parsed) :
       parsed[j].via = "ocr" /\ ~HasExtractableText(parsed[j].doc)

C6_CorruptPdfNeverFatal ==
  /\ \A i \in 1..Len(info) : ParseThrows(info[i].read) => info[i].needsOCR = TRUE
  /\ ~(pc = "done" /\ io.threw = "pdf-parse" /\ resp.status >= 400)

\* C7: when recognition fails on a page during OCR, the request does not fail:
\* the paper is still parsed.
C7_PageFailureNotFatal ==
  (pc = "done" /\ io.badPages > 0) => (resp.status # 500 /\ parsed # << >>)

\* C8: when persisting the history record fails, the request still returns the
\* successful analysis response.
C8_SaveFailureStillSucceeds ==
  (pc = "done" /\ io.saves > 0
     /\ io.threw \in {"AnalysisHistory validation failed", "MongoNetworkError"})
    => (resp.status = 200 /\ resp.payload.analysis = analysis)

\* the error texts that name a provider
NamedErrors(p) ==
  CASE p = "gemini" ->
         {"Error analyzing with GEMINI API", "Error analyzing with Gemini API"}
    [] p = "mistral" ->
         {"Error analyzing with MISTRAL API", "Error analyzing with Mistral API"}
    [] OTHER ->
         {"Error analyzing with COHERE API", "Error with Cohere API"}

\* C9: a provider's transport failure or malformed response ends the request
\* with one error response (HTTP 500) that names the provider and carries the
\* underlying message; the provider is called at most once per request, and
\* nothing is saved or deleted.
C9_ProviderFailureNormalized ==
  /\ io.calls <= 1
  /\ (pc = "done" /\ io.outcome \in {"netError", "badEnvelope", "noGeneration"})
       => /\ resp.status = 500
          /\ resp.sent = 1
          /\ resp.error \in NamedErrors(provider)
          /\ resp.details # ""
          /\ resp.details = io.threw
          /\ (io.outcome = "netError" => resp.details = "fetch failed")
          /\ io.calls = 1
          /\ io.saves = 0
          /\ io.unlinks = 0

C9_CohereMissingGeneration ==
  /\ pc = "done"
  /\ endpoint = "analyze"
  /\ provider = "cohere"
  /\ io.outcome = "noGeneration"
  /\ resp.status = 500
  /\ resp.error = "Error analyzing with COHERE API"
  /\ resp.details = "Invalid response from Cohere API"

\* C10: when an analysis completes (the provider has returned it), through
\* /api/analyze or a per-provider handler, a deletion has been issued for the
\* stored file of every paper of the request.
C10_DeletionIssuedForEveryPaper ==
  (pc = "done" /\ endpoint \in AnalysisEndpoints /\ io.outcome = "ok")
    => io.unlinks = Cardinality({ papers[k].fileId : k \in 1..Len(papers) })

\* the parts of C10 the code keeps: a deletion is issued only with the reply
\* sent, and performing it leaves the reply as it is
DeletionAfterReply ==
  [][ /\ (pendingUnlink' \ pendingUnlink # {} => resp'.status = 200)
      /\ (disk' # disk /\ pc' = pc => resp' = resp) ]_vars

\* C11: a stored file is referenced only by the request that owns it: the file
\* an analysis found present (fs.existsSync) has not been deleted by another
\* request's cleanup when the analysis comes to read it.
C11_FileStableWhileParsed ==
  pc = "raster" => disk[papers[idx].fileId] # NoFile

\* the keyword substrings the claim lists
ListedKeywords ==
  { <<"m","a","t","h","e","m","a","t","i","c","s">>,
    <<"c","a","l","c","u","l","u","s">>,
    <<"a","l","g","e","b","r","a">>,
    <<"t","h","e","o","r","y"," ","o","f"," ","c","o","m","p","u","t","a","t","i","o","n">>,
    <<"t","o","c">>,
    <<"d","i","s","c","r","e","t","e"," ","m","a","t","h","e","m","a","t","i","c","s">>,
    <<"d","m">>,
    <<"c","o","m","p","i","l","e","r"," ","d","e","s","i","g","n">>,
    <<"c","d">>,
    <<"a","u","t","o","m","a","t","a">>,
    <<"f","o","r","m","a","l"," ","l","a","n","g","u","a","g","e","s">> }

\* the listed keywords and the two shorter ones the code also looks for
ListedAndShort ==
  ListedKeywords \cup { <<"m","a","t","h">>, <<"c","o","m","p","i","l","e","r">> }

\* some subject of the batch, folded to upper case, contains a keyword of kws
\* folded to upper case
ContainsAny(ps, kws) ==
  \E k \in 1..Len(ps) : \E kw \in kws :
    Includes(SubjectUpper(ps[k].subject), SubjectUpper(kw))

CompilerDesign == <<"C","o","m","p","i","l","e","r"," ","D","e","s","i","g","n">>

\* C12 as claimed: the classifier returns true exactly when some subject of
\* the batch contains, case-insensitively, one of the listed keywords
\* (mathematics, calculus, algebra, theory of computation, toc, discrete
\* mathematics, dm, compiler design, cd, automata, formal languages).
C12_TrueIffListedKeyword ==
  technical # << >> => (technical[1] <=> ContainsAny(batch, ListedKeywords))

\* C12 as amended: the classifier returns true exactly when some subject of
\* the batch contains, case-insensitively, one of the listed keywords or one
\* of 'math' and 'compiler'; a batch and the same batch in upper case classify
\* identically, 'Compiler Design' is technical and 'History' is not.
C12_TrueIffListedOrShortKeyword ==
  technical # << >> =>
    /\ technical[1] <=> ContainsAny(batch, ListedAndShort)
    /\ technical[1] <=>
         isMathSubject([k \in 1..Len(batch) |-> [subject |-> SubjectUpper(batch[k].subject)]])
    /\ (batch = <<[subject |-> CompilerDesign]>> => technical[1])
    /\ (batch = <<[subject |-> History]>> => ~technical[1])

C12_HistoryThenCompilerDesign ==
  /\ batch = <<[subject |-> History], [subject |-> SubjectUpper(CompilerDesign)]>>
  /\ technical = <<TRUE>>

\* what parsePapers returns without the fields that record where a text came
\* from
ParsedPapers == [j \in 1..Len(parsed) |-> [text |-> parsed[j].text,
                                           subject |-> parsed[j].subject,
                                           originalName |-> parsed[j].originalName]]

\* C13: papersText and prompt are the assembler's output on the parsed papers
\* and on nothing else, whichever endpoint handles the request and whichever
\* provider is selected, and the reply carries them as assembled.
C13_PromptFromParsedPapersOnly ==
  prompt # << >> =>
    /\ papersText = PapersText(ParsedPapers)
    /\ prompt = generatePrompt(PapersText(ParsedPapers), isMathSubject(ParsedPapers))
    /\ (resp.status = 200 =>
          /\ resp.payload.papersText = papersText
          /\ resp.payload.prompt = prompt)

C13_GeminiEndpointWithNote ==
  /\ pc = "done"
  /\ endpoint = "gemini"
  /\ resp.status = 200
  /\ Len(parsed) = 2
  /\ parsed[2].subject = Mathematics
  /\ Includes(resp.payload.prompt, <<Note>>)
  /\ resp.payload.prompt =
       generatePrompt(PapersText(ParsedPapers), TRUE)

\* the number of times the advisory note stands in a prompt
NoteCount(pr) == Cardinality({ i \in 1..Len(pr) : pr[i] = Note })

\* the request in flight is the scenario: a text PDF with subject Mathematics
\* followed by a scanned PDF with subject History, flagged as upload reports them
MathThenScannedHistory ==
  /\ Len(papers) = 2
  /\ Len(parsed) = 2
  /\ parsed[1].doc = "text" /\ parsed[1].subject = Mathematics
  /\ ~papers[1].needsOCR
  /\ parsed[2].doc = "scan" /\ parsed[2].subject = History
  /\ papers[2].needsOCR

\* C14 as claimed: the prompt contains the advisory note exactly when at least
\* one paper of the request has a technical subject.
C14_NoteIffRequestHasTechnicalPaper ==
  prompt # << >> =>
    (NoteCount(prompt) > 0 <=> ContainsAny(papers, ListedAndShort))

\* C14 as amended: the prompt contains the advisory note, once, exactly when at
\* least one parsed paper (the papers whose stored file is missing are skipped)
\* has a technical subject; upload reports needsOCR = false for a stored file
\* that is a text PDF and needsOCR = true for one that is a scanned PDF, and a
\* paper with subject Mathematics whose stored file is a text PDF followed by
\* a paper with subject History whose stored file is a scanned PDF yields a
\* prompt with the note and, after INPUT PAPERS:, the sections "Paper 1:" and
\* "Paper 2:".
C14_NoteIffParsedPaperTechnical ==
  /\ prompt # << >> =>
       /\ NoteCount(prompt) = (IF ContainsAny(ParsedPapers, ListedAndShort) THEN 1 ELSE 0)
       /\ Includes(prompt, <<"INPUT PAPERS:", "\n">> \o papersText)
  /\ \A i \in 1..Len(info) :
       /\ info[i].read = "text" => info[i].needsOCR = FALSE
       /\ info[i].read = "scan" => info[i].needsOCR = TRUE
  /\ (prompt # << >> /\ MathThenScannedHistory) =>
       /\ NoteCount(prompt) = 1
       /\ HasBlock(papersText, 1, DirectText("text"))
       /\ HasBlock(papersText, 2, PagesInOrder("scan"))

C14_ScenarioAnalysed ==
  /\ pc = "done"
  /\ endpoint = "analyze"
  /\ resp.status = 200
  /\ MathThenScannedHistory
  /\ NoteCount(resp.payload.prompt) = 1
  /\ HasBlock(resp.payload.prompt, 2, <<"A", "\n", "B", "\n">>)

\* where the text of page i starts in the OCR text of a document
RECURSIVE PageStart(_, _)
PageStart(d, i) ==
  IF i = 1 THEN 1
  ELSE PageStart(d, i - 1) + Len(Recognize(PageImages(d)[i - 1])) + 1

\* C15: the OCR text of a paper with pages 1..P is the recognition result of
\* page 1, a newline, the result of page 2, a newline, ..., the result of page
\* P, a newline: every page's text stands at the place its index gives it.
C15_OcrTextInPageOrder ==
  \A j \in 1..Len(parsed) :
    parsed[j].via = "ocr" =>
      LET d == parsed[j].doc
          P == Len(PageImages(d))
          t == parsed[j].text
      IN  /\ Len(t) = PageStart(d, P + 1) - 1
          /\ \A i \in 1..P :
               /\ SubSeq(t, PageStart(d, i), PageStart(d, i + 1) - 2)
                    = Recognize(PageImages(d)[i])
               /\ t[PageStart(d, i + 1) - 1] = "\n"

C15_TwoPagesRecognized ==
  /\ pc = "dispatch"
  /\ endpoint = "mistral"
  /\ Len(parsed) = 1
  /\ parsed[1].via = "ocr"
  /\ Len(PageImages(parsed[1].doc)) = 2
  /\ parsed[1].text = <<"A", "\n", "B", "\n">>

\* C16: the user list and the removal of a user are admin only: a reply that
\* hands out the list or confirms a removal goes to a caller whose role is
\* admin.
C16_ListAndDeleteAdminOnly ==
  (authResp.op \in {"getUsers", "deleteUser"} /\ authResp.status = 200)
    => authResp.role = "admin"

\* C17: every file an upload request stores has a fileId of its own, and the
\* fileId the reply returns for a file denotes the file the caller sent.
C17_StoredUnderDistinctFileIds ==
  (endpoint = "upload" /\ pc = "done" /\ resp.status = 200) =>
    /\ \A i, j \in 1..Len(info) : i # j => info[i].fileId # info[j].fileId
    /\ \A i \in 1..Len(info) : info[i].read = files[i].sent

====
